---- MODULE Spec2Model ----
(***************************************************************************)
(* The request gateway of rag_api: correlation_middleware and              *)
(* security_middleware (app/middleware.py) and the executor offload        *)
(* context_aware_run_in_executor (app/services/vector_store/               *)
(* async_pg_vector.py).                                                    *)
(*                                                                         *)
(* Strings are sequences of one-character strings, so that split, slicing  *)
(* and len are computed.  An optional value (Python's None or a value) is a  *)
(* set with at most one element: {} is None, {v} is the value v.            *)
(***************************************************************************)
EXTENDS Integers, Sequences, FiniteSets, TLC

\* ------------------------------------------------------------------ bounds
\* Number of requests in flight at once in the concurrent specification.
NumRequests == 2
\* Number of threads of the executor.
NumWorkers == 2
\* Longest traceparent header value enumerated.
MaxTpLen == 6
\* The clock runs from 0 to MaxTime.
MaxTime == 2
\* How many times the environment variable JWT_SECRET is changed.
MaxEnvChanges == 1

\* --------------------------------------------------------- program constants
\* len(uuid.uuid4().hex)
UuidHexLen == 32
\* the slice [:16] of the second uuid
SliceLen == 16

\* ------------------------------------------------------------------ values
None == {}
Some(v) == {v}
Val(o) == CHOOSE v \in o : TRUE
Str1(c) == <<c>>

\* Python truthiness of an Optional[str]: None and "" are falsy.
Truthy(o) == o # {} /\ o # {<< >>}

\* a or b, on Optional[str]
Or(a, b) == IF Truthy(a) THEN a ELSE b

\* s.split(sep): the fields of s between the occurrences of sep (always at
\* least one field).
RECURSIVE SplitFrom(_, _, _)
SplitFrom(s, sep, cur) ==
    IF s = << >> THEN <<cur>>
    ELSE IF Head(s) = sep THEN <<cur>> \o SplitFrom(Tail(s), sep, << >>)
    ELSE SplitFrom(Tail(s), sep, Append(cur, Head(s)))

Split(s, sep) == SplitFrom(s, sep, << >>)

\* uuid.uuid4().hex: 32 lowercase hexadecimal digits, the version nibble 4 at
\* index 12 and the variant nibble at index 16 (0-based); d stands for the
\* random digits.
Uuid4Hex(d) ==
    [i \in 1..UuidHexLen |-> IF i = 13 THEN "4" ELSE IF i = 17 THEN "a" ELSE d]

\* The random draws enumerated.
UuidDigits == {"0", "f"}

\* uuid.uuid4().hex + uuid.uuid4().hex[:16]
GenerateTraceId(d1, d2) == Uuid4Hex(d1) \o SubSeq(Uuid4Hex(d2), 1, SliceLen)

\* ---------------------------------------------------------------- requests
\* request.headers.get(name): the headers the two stages read.
Headers(tp, xt, xr, xc, auth) ==
    [traceparent |-> tp, x_trace_id |-> xt, x_request_id |-> xr,
     x_correlation_id |-> xc, authorization |-> auth]

\* Variant: a traceparent that does not parse into four fields falls through
\* to the custom headers.
ResolveFallThrough(h, fresh) ==
    LET fields == IF Truthy(h.traceparent)
                  THEN Split(Val(h.traceparent), "-") ELSE << >>
        parsed == IF Len(fields) >= 4 THEN Some(fields[2]) ELSE None
        custom == Or(Or(h.x_trace_id, h.x_request_id), h.x_correlation_id)
        found == IF parsed # None THEN parsed ELSE custom
    IN  IF Truthy(found) THEN Val(found) ELSE fresh

\* Lines 20-35 of correlation_middleware: the trace id resolved from the
\* headers, fresh being the identifier generated when none is provided.
\* split("-")[1] raises IndexError when there is no second field.
ResolveTraceId(h, fresh) ==
    LET trace_id ==
            IF Truthy(h.traceparent)
            THEN LET fields == Split(Val(h.traceparent), "-")
                 IN  IF Len(fields) >= 2 THEN Some(fields[2]) ELSE None
            ELSE Or(Or(h.x_trace_id, h.x_request_id), h.x_correlation_id)
    IN  IF ~Truthy(trace_id) THEN fresh ELSE Val(trace_id)

\* ------------------------------------------------------------- JSON Web Tokens
\* The Authorization header value is a sequence of atoms: a word, the space
\* character, or a compact JWT.  A JWT is described by what jwt.decode looks
\* at: whether it has its three segments, the algorithm of its header, the
\* key that signed it and its exp claim.
Word(w) == [word |-> w, jwt |-> None]
SP == Word(" ")
Jwt(t) == [word |-> "", jwt |-> Some(t)]

S1 == <<"s", "1">>
S2 == <<"s", "2">>

\* datetime.fromtimestamp raises OverflowError/ValueError above the timestamp
\* of datetime.max; the model's clock is scaled, so the limit is placed just
\* above the largest expiry the clock can reach.
DatetimeMax == MaxTime + 2

ExpValues == {None} \cup {Some(e) : e \in 0..(MaxTime + 1)} \cup {Some(DatetimeMax + 1)}

Tokens == [wf : BOOLEAN, alg : {"HS256", "HS512"}, key : {S1, S2}, exp : ExpValues]

GoodToken == [wf |-> TRUE, alg |-> "HS256", key |-> S1, exp |-> None]

\* The claim set of a token (the payload jwt.decode returns).
Payload(t) == [exp |-> t.exp, sub |-> "user"]

\* Variant: decode without the algorithm and signature checks.
JwtDecodeNoVerify(token, key, now) ==
    IF Len(token) # 1 \/ token[1].jwt = None \/ ~Val(token[1].jwt).wf
    THEN [ok |-> FALSE, err |-> "Not enough segments", payload |-> None]
    ELSE LET t == Val(token[1].jwt)
         IN  IF t.exp # None /\ Val(t.exp) <= now
             THEN [ok |-> FALSE, err |-> "Signature has expired", payload |-> None]
             ELSE [ok |-> TRUE, err |-> "", payload |-> Some(Payload(t))]

\* jwt.decode(token, key, algorithms=["HS256"]) of PyJWT with its default
\* options, at time now: the segments are loaded, the algorithm is checked
\* against the allow-list, the signature is verified, and then the registered
\* claims are validated (verify_exp is on by default, leeway 0: a token
\* whose exp is not after now raises ExpiredSignatureError, a PyJWTError).
JwtDecode(token, key, now) ==
    IF Len(token) # 1 \/ token[1].jwt = None \/ ~Val(token[1].jwt).wf
    THEN [ok |-> FALSE, err |-> "Not enough segments", payload |-> None]
    ELSE LET t == Val(token[1].jwt)
         IN  IF t.alg # "HS256"
             THEN [ok |-> FALSE, err |-> "The specified alg value is not allowed",
                   payload |-> None]
             ELSE IF t.key # key
             THEN [ok |-> FALSE, err |-> "Signature verification failed",
                   payload |-> None]
             ELSE IF t.exp # None /\ Val(t.exp) <= now
             THEN [ok |-> FALSE, err |-> "Signature has expired", payload |-> None]
             ELSE [ok |-> TRUE, err |-> "", payload |-> Some(Payload(t))]

\* f"Invalid token: {str(e)}"
InvalidToken(err) ==
    CASE err = "Not enough segments" -> "Invalid token: Not enough segments"
      [] err = "The specified alg value is not allowed" ->
             "Invalid token: The specified alg value is not allowed"
      [] err = "Signature verification failed" ->
             "Invalid token: Signature verification failed"
      [] err = "Signature has expired" -> "Invalid token: Signature has expired"

\* ------------------------------------------------------------ security stage
\* Variant: the health check left out of the allow-list.
ExemptPathsNoHealth == {"/docs", "/openapi.json"}

\* The set literal of line 57.
ExemptPaths == {"/docs", "/openapi.json", "/health"}

\* authorization.startswith("Bearer ")
StartsWithBearer(a) == Len(a) >= 2 /\ a[1] = Word("Bearer") /\ a[2] = SP

\* What security_middleware does with a request, the environment's secret and
\* the two readings of the clock (jwt.decode's, then the stage's own):
\* outcome "forward" (call_next), "reject" (a 401 JSONResponse with detail)
\* or "raise" (an exception leaves the function).  read_secret and read_auth
\* record whether os.getenv and request.headers.get were reached.
Decision(outcome, detail, user, rs, ra) ==
    [outcome |-> outcome, detail |-> detail, user |-> user,
     read_secret |-> rs, read_auth |-> ra]

\* Variant: request.state.user assigned right after jwt.decode, before the
\* expiry check.
CheckTokenAttachEarly(jwt_secret, authorization, now1, now2) ==
    IF ~Truthy(authorization) \/ ~StartsWithBearer(Val(authorization))
    THEN Decision("reject", "Missing or invalid Authorization header", None, TRUE, TRUE)
    ELSE LET token == Split(Val(authorization), SP)[2]
             dec == JwtDecode(token, Val(jwt_secret), now1)
         IN  IF ~dec.ok
             THEN Decision("reject", InvalidToken(dec.err), None, TRUE, TRUE)
             ELSE LET exp_timestamp == Val(dec.payload).exp
                  IN  IF exp_timestamp # None /\ Val(exp_timestamp) # 0
                      THEN IF Val(exp_timestamp) > DatetimeMax
                           THEN Decision("raise", "OverflowError", dec.payload, TRUE, TRUE)
                           ELSE IF now2 > Val(exp_timestamp)
                           THEN Decision("reject", "Token has expired", dec.payload,
                                         TRUE, TRUE)
                           ELSE Decision("forward", "", dec.payload, TRUE, TRUE)
                      ELSE Decision("forward", "", dec.payload, TRUE, TRUE)

\* Lines 65-99: the path is not exempt and jwt_secret is set.  The expiry
\* check is skipped for a falsy exp (None or 0); datetime.fromtimestamp
\* raises outside except PyJWTError's reach.
CheckToken(jwt_secret, authorization, now1, now2) ==
    IF ~Truthy(authorization) \/ ~StartsWithBearer(Val(authorization))
    THEN Decision("reject", "Missing or invalid Authorization header", None, TRUE, TRUE)
    ELSE LET token == Split(Val(authorization), SP)[2]
             dec == JwtDecode(token, Val(jwt_secret), now1)
         IN  IF ~dec.ok
             THEN Decision("reject", InvalidToken(dec.err), None, TRUE, TRUE)
             ELSE LET exp_timestamp == Val(dec.payload).exp
                  IN  IF exp_timestamp # None /\ Val(exp_timestamp) # 0
                      THEN IF Val(exp_timestamp) > DatetimeMax
                           THEN Decision("raise", "OverflowError", None, TRUE, TRUE)
                           ELSE IF now2 > Val(exp_timestamp)
                           THEN Decision("reject", "Token has expired", None, TRUE, TRUE)
                           ELSE Decision("forward", "", dec.payload, TRUE, TRUE)
                      ELSE Decision("forward", "", dec.payload, TRUE, TRUE)

\* Variant: the secret read once when the process started.
SecretInForceCached(environ_now, startup) == startup

\* os.getenv("JWT_SECRET") (line 60), called while the request is processed:
\* the value the environment holds then, not the one at startup.
SecretInForce(environ_now, startup) == environ_now

\* Lines 57-99 of security_middleware.
SecurityDecision(path, jwt_secret, authorization, now1, now2) ==
    IF path \in ExemptPaths
    THEN Decision("forward", "", None, FALSE, FALSE)
    ELSE IF ~Truthy(jwt_secret)
    THEN Decision("forward", "", None, TRUE, FALSE)
    ELSE CheckToken(jwt_secret, authorization, now1, now2)

\* -------------------------------------------------------------------- state
VARIABLES
    pc,             \* where each request is in the middleware chain
    request,        \* the Request: path and headers
    state,          \* request.state: trace_id and user
    task_ctx,       \* trace_id_var in the context of the request's task
    response,       \* the response object travelling back, if any
    environ,        \* os.environ["JWT_SECRET"]
    startup_secret, \* the value JWT_SECRET had when the process started
    now,            \* datetime.now(tz=timezone.utc)
    env_changes,    \* how many times the environment was changed
    queue,          \* work submitted to the executor, not yet taken
    worker,         \* the work item each executor thread is running
    thread_ctx,     \* trace_id_var in the context current on each thread
    seen,           \* what the offloaded function read from trace_id_var
    audit,          \* what the security stage read and when it decided
    trail           \* the stages each request went through, in order

vars == <<pc, request, state, task_ctx, response, environ, startup_secret, now,
          env_changes, queue, worker, thread_ctx, seen, audit, trail>>

Requests == 1..NumRequests
Workers == 1..NumWorkers

NoHeaders == Headers(None, None, None, None, None)
NoAudit ==
    [decided |-> FALSE, outcome |-> "", read_secret |-> FALSE, read_auth |-> FALSE,
     environ |-> None, now1 |-> 0, now2 |-> 0]

\* trace_id_var: ContextVar('trace_id', default=None)
trace_id_var_default == None

InitWith(secrets, times) ==
    /\ pc = [r \in Requests |-> "new"]
    /\ request = [r \in Requests |-> [path |-> "", headers |-> NoHeaders]]
    /\ state = [r \in Requests |-> [trace_id |-> None, user |-> None]]
    /\ task_ctx = [r \in Requests |-> trace_id_var_default]
    /\ response = [r \in Requests |-> None]
    /\ environ \in secrets
    /\ startup_secret = environ
    /\ now \in times
    /\ env_changes = 0
    /\ queue = << >>
    /\ worker = [w \in Workers |-> None]
    /\ thread_ctx = [w \in Workers |-> trace_id_var_default]
    /\ seen = [r \in Requests |-> None]
    /\ audit = [r \in Requests |-> NoAudit]
    /\ trail = [r \in Requests |-> << >>]

\* ------------------------------------------------------- correlation stage
\* correlation_middleware up to its await (lines 20-43): the trace id is
\* resolved, published in trace_id_var and in request.state, and the request
\* is handed to call_next.  d1 and d2 are the two uuid4 draws.
correlation_ingress(r, path, h, d1, d2) ==
    /\ pc[r] = "new"
    /\ LET trace_id == ResolveTraceId(h, GenerateTraceId(d1, d2))
       IN  /\ request' = [request EXCEPT ![r] = [path |-> path, headers |-> h]]
           /\ task_ctx' = [task_ctx EXCEPT ![r] = Some(trace_id)]
           /\ state' = [state EXCEPT ![r].trace_id = Some(trace_id)]
    /\ pc' = [pc EXCEPT ![r] = "security"]
    /\ trail' = [trail EXCEPT ![r] = Append(@, "correlation")]
    /\ UNCHANGED <<response, environ, startup_secret, now, env_changes, queue,
                   worker, thread_ctx, seen, audit>>

\* Variant: only a 200 response gets the headers.
StampHeadersOkOnly(resp, trace_id) ==
    IF resp.status_code = 200
    THEN [resp EXCEPT !.headers = [x_trace_id |-> Some(trace_id),
                                   x_request_id |-> Some(trace_id)]]
    ELSE resp

\* response.headers["X-Trace-ID"] = trace_id; response.headers["X-Request-ID"]
\* = trace_id (lines 46-48).
StampHeaders(resp, trace_id) ==
    [resp EXCEPT !.headers = [x_trace_id |-> Some(trace_id),
                              x_request_id |-> Some(trace_id)]]

\* correlation_middleware after its await (lines 43-50): call_next returned
\* a response; the local trace_id (the value stored in request.state) is set
\* on it and it is returned.
correlation_egress(r) ==
    /\ pc[r] = "returning"
    /\ response' = [response EXCEPT ![r] =
                        Some(StampHeaders(Val(response[r]), Val(state[r].trace_id)))]
    /\ pc' = [pc EXCEPT ![r] = "done"]
    /\ trail' = [trail EXCEPT ![r] = Append(@, "headers")]
    /\ UNCHANGED <<request, state, task_ctx, environ, startup_secret, now,
                   env_changes, queue, worker, thread_ctx, seen, audit>>

\* ---------------------------------------------------------- security stage
NoResponseHeaders == [x_trace_id |-> None, x_request_id |-> None]

\* JSONResponse(status_code=401, content={"detail": detail})
JSONResponse(status_code, detail) ==
    [status_code |-> status_code, detail |-> detail, headers |-> NoResponseHeaders]

\* security_middleware (lines 53-99), one step: it has no await before its
\* decision.  The clock is read by jwt.decode and then by the stage, and may
\* have advanced in between.  An exception that leaves the function also
\* leaves correlation_middleware's await, and the request ends without a
\* response of the two stages.
security_middleware(r) ==
    /\ pc[r] = "security"
    /\ \E now2 \in now..MaxTime :
        LET d == SecurityDecision(request[r].path,
                                  SecretInForce(environ, startup_secret),
                                  request[r].headers.authorization, now, now2)
        IN  /\ now' = now2
            /\ audit' = [audit EXCEPT ![r] =
                   [decided |-> TRUE, outcome |-> d.outcome,
                    read_secret |-> d.read_secret, read_auth |-> d.read_auth,
                    environ |-> environ, now1 |-> now, now2 |-> now2]]
            /\ state' = [state EXCEPT ![r].user = d.user]
            /\ trail' = [trail EXCEPT ![r] = Append(@, "security")]
            /\ CASE d.outcome = "forward" ->
                      /\ pc' = [pc EXCEPT ![r] = "handler"]
                      /\ UNCHANGED response
                 [] d.outcome = "reject" ->
                      /\ pc' = [pc EXCEPT ![r] = "returning"]
                      /\ response' = [response EXCEPT ![r] =
                                          Some(JSONResponse(401, d.detail))]
                 [] d.outcome = "raise" ->
                      /\ pc' = [pc EXCEPT ![r] = "raised"]
                      /\ UNCHANGED response
    /\ UNCHANGED <<request, task_ctx, environ, startup_secret, env_changes, queue,
                   worker, thread_ctx, seen>>

\* ------------------------------------------------- route handler and offload
\* The route handler call_next reaches answers 200.  It either answers
\* directly or awaits one AsyncPgVector method, which offloads the blocking
\* call through context_aware_run_in_executor.
handler_direct(r) ==
    /\ pc[r] = "handler"
    /\ response' = [response EXCEPT ![r] = Some(JSONResponse(200, ""))]
    /\ pc' = [pc EXCEPT ![r] = "returning"]
    /\ trail' = [trail EXCEPT ![r] = @ \o <<"handler", "handler_returned">>]
    /\ UNCHANGED <<request, state, task_ctx, environ, startup_secret, now,
                   env_changes, queue, worker, thread_ctx, seen, audit>>

\* ctx = contextvars.copy_context(): a snapshot of the caller's context.
copy_context(r) == task_ctx[r]

\* context_aware_run_in_executor (lines 8-18) called from the handler of
\* request r: the context is captured and ctx.run(wrapper) is submitted to
\* the executor; the handler awaits the future.
context_aware_run_in_executor(r) ==
    /\ pc[r] = "handler"
    /\ queue' = Append(queue, [req |-> r, ctx |-> copy_context(r)])
    /\ pc' = [pc EXCEPT ![r] = "awaiting"]
    /\ trail' = [trail EXCEPT ![r] = Append(@, "handler")]
    /\ UNCHANGED <<request, state, task_ctx, response, environ, startup_secret,
                   now, env_changes, worker, thread_ctx, seen, audit>>

\* Variant: the callable submitted bare, so it runs in the thread's context.
RunInThreadContext(ctx, own) == own

\* The context in which the submitted callable runs on a thread whose own
\* context is own: ctx.run makes the captured context current (line 18).
RunInContext(ctx, own) == ctx

\* An executor thread takes the next work item and enters ctx.run.
worker_take(w) ==
    /\ worker[w] = None
    /\ queue # << >>
    /\ worker' = [worker EXCEPT ![w] = Some(Head(queue))]
    /\ queue' = Tail(queue)
    /\ thread_ctx' = [thread_ctx EXCEPT ![w] =
                          RunInContext(Head(queue).ctx, thread_ctx[w])]
    /\ UNCHANGED <<pc, request, state, task_ctx, response, environ,
                   startup_secret, now, env_changes, seen, audit, trail>>

\* wrapper() runs func, which reads trace_id_var (as the log filter does);
\* ctx.run returns, the thread is back in its own context and the future
\* completes.
worker_call(w) ==
    /\ worker[w] # None
    /\ LET job == Val(worker[w])
       IN  /\ seen' = [seen EXCEPT ![job.req] = Some(thread_ctx[w])]
           /\ pc' = [pc EXCEPT ![job.req] = "resumable"]
    /\ worker' = [worker EXCEPT ![w] = None]
    /\ thread_ctx' = [thread_ctx EXCEPT ![w] = trace_id_var_default]
    /\ UNCHANGED <<request, state, task_ctx, response, environ, startup_secret,
                   now, env_changes, queue, audit, trail>>

\* The awaited future is done: the handler resumes and answers.
handler_resume(r) ==
    /\ pc[r] = "resumable"
    /\ response' = [response EXCEPT ![r] = Some(JSONResponse(200, ""))]
    /\ pc' = [pc EXCEPT ![r] = "returning"]
    /\ trail' = [trail EXCEPT ![r] = Append(@, "handler_returned")]
    /\ UNCHANGED <<request, state, task_ctx, environ, startup_secret, now,
                   env_changes, queue, worker, thread_ctx, seen, audit>>

\* ------------------------------------------------------------- environment
\* Time passes.
Tick ==
    /\ now < MaxTime
    /\ now' = now + 1
    /\ UNCHANGED <<pc, request, state, task_ctx, response, environ,
                   startup_secret, env_changes, queue, worker, thread_ctx, seen,
                   audit, trail>>

SecretValues == {None, Some(<< >>), Some(S1)}

\* JWT_SECRET is set, emptied or unset in os.environ while the process runs.
SetEnv ==
    /\ env_changes < MaxEnvChanges
    /\ \E v \in SecretValues \ {environ} : environ' = v
    /\ env_changes' = env_changes + 1
    /\ UNCHANGED <<pc, request, state, task_ctx, response, startup_secret, now,
                   queue, worker, thread_ctx, seen, audit, trail>>

\* ------------------------------------------------------------------ inputs
\* All strings over chars of length at most n.
RECURSIVE StringsUpTo(_, _)
StringsUpTo(chars, n) ==
    IF n = 0 THEN {<< >>}
    ELSE LET shorter == StringsUpTo(chars, n - 1)
         IN  shorter \cup {Append(s, c) : s \in shorter, c \in chars}

TraceparentValues == {None} \cup {Some(s) : s \in StringsUpTo({"a", "-"}, MaxTpLen)}

\* The request paths enumerated: the three exempt ones, a route and a near miss.
Paths == {"/docs", "/openapi.json", "/health", "/embed", "/health/"}

AuthorizationValues ==
    {None, Some(<< >>),
     Some(<<Word("Bearer")>>),
     Some(<<Word("Bearer"), SP>>),
     Some(<<Word("Basic"), SP, Jwt(GoodToken)>>),
     Some(<<Word("bearer"), SP, Jwt(GoodToken)>>),
     Some(<<Word("Bearer"), SP, SP, Jwt(GoodToken)>>),
     Some(<<Word("Bearer"), SP, Jwt(GoodToken), Word("x")>>),
     Some(<<Word("Bearer"), SP, Word("x")>>),
     Some(<<Word("Bearer"), SP, Jwt(GoodToken), SP, Word("x")>>)}
    \cup {Some(<<Word("Bearer"), SP, Jwt(t)>>) : t \in Tokens}

\* ------------------------------------------------------------------ actions
Secure == \E r \in Requests : security_middleware(r)
Answer == \E r \in Requests : handler_direct(r)
Offload == \E r \in Requests : context_aware_run_in_executor(r)
Take == \E w \in Workers : worker_take(w)
Call == \E w \in Workers : worker_call(w)
Resume == \E r \in Requests : handler_resume(r)
Egress == \E r \in Requests : correlation_egress(r)

\* Concurrent requests, each with or without an X-Trace-ID and with or
\* without a valid bearer token, to a protected path.
Receive ==
    \E r \in {q \in Requests : pc[q] = "new"} :
        \E path \in {"/embed"},
           xt \in {None, Some(Str1("t"))}, d \in UuidDigits,
           auth \in {None, Some(<<Word("Bearer"), SP, Jwt(GoodToken)>>)} :
            correlation_ingress(r, path, Headers(None, xt, None, None, auth), d, d)

\* One request with any combination of the trace headers, to an exempt path;
\* its handler answers without offloading.
ReceiveTraced ==
    /\ pc[1] = "new"
    /\ \E tp \in TraceparentValues,
       xt \in {None, Some(<< >>), Some(Str1("t"))},
       xr \in {None, Some(<< >>), Some(Str1("r"))},
       xc \in {None, Some(<< >>), Some(Str1("c"))},
       d1 \in UuidDigits, d2 \in UuidDigits :
           correlation_ingress(1, "/health", Headers(tp, xt, xr, xc, None), d1, d2)

\* One request with any path and any Authorization header, while the clock
\* and the environment change; its handler answers without offloading.
ReceiveAuthorized ==
    /\ pc[1] = "new"
    /\ \E path \in Paths, auth \in AuthorizationValues :
           correlation_ingress(1, path, Headers(None, None, None, None, auth), "0", "f")

Init == InitWith({Some(S1)}, {MaxTime})

Next ==
    \/ Receive
    \/ Secure
    \/ Answer
    \/ Offload
    \/ Take
    \/ Call
    \/ Resume
    \/ Egress

Spec == Init /\ [][Next]_vars

InitCorrelation == InitWith({Some(S1)}, {MaxTime})

NextCorrelation ==
    \/ ReceiveTraced
    \/ Secure
    \/ Answer
    \/ Egress

SpecCorrelation == InitCorrelation /\ [][NextCorrelation]_vars

InitSecurity == InitWith(SecretValues, 0..MaxTime)

NextSecurity ==
    \/ ReceiveAuthorized
    \/ Secure
    \/ Answer
    \/ Egress
    \/ Tick
    \/ SetEnv

SpecSecurity == InitSecurity /\ [][NextSecurity]_vars

\* ------------------------------------------------------------------ claims
\* Vocabulary of the claims, stated on the request and on what was recorded
\* when the security stage decided.
HasEvent(r, e) == \E i \in 1..Len(trail[r]) : trail[r][i] = e
HandlerInvoked(r) == HasEvent(r, "handler")
Decided(r) == audit[r].decided
Protected(r) == request[r].path \notin {"/docs", "/openapi.json", "/health"}
SecretConfigured(r) == audit[r].environ # None /\ audit[r].environ # Some(<< >>)
Is401(r) == response[r] # None /\ Val(response[r]).status_code = 401

\* The Authorization header has the form "Bearer <token>": the word Bearer, a
\* space and one JWT (whatever follows a further space is not part of it).
BearerForm(r) ==
    LET a == request[r].headers.authorization
    IN  /\ a # None
        /\ Len(Val(a)) >= 3
        /\ Val(a)[1] = Word("Bearer")
        /\ Val(a)[2] = SP
        /\ Val(a)[3].jwt # None
        /\ (Len(Val(a)) > 3 => Val(a)[4] = SP)

BearerToken(r) == Val(Val(request[r].headers.authorization)[3].jwt)

\* The signature verifies against the secret in force, under HS256.
Verifies(r) ==
    LET t == BearerToken(r)
    IN  t.wf /\ t.alg = "HS256" /\ Some(t.key) = audit[r].environ

\* The token has no exp claim or its expiry lies ahead of the clock: after
\* the reading jwt.decode took and not before the stage's own reading.
Unexpired(r) ==
    LET t == BearerToken(r)
    IN  t.exp = None \/ (Val(t.exp) > audit[r].now1 /\ Val(t.exp) >= audit[r].now2)

ValidCredential(r) == BearerForm(r) /\ Verifies(r) /\ Unexpired(r)

C2_ExpiredReason ==
    \A r \in Requests :
        (/\ Decided(r) /\ Protected(r) /\ SecretConfigured(r)
         /\ BearerForm(r) /\ Verifies(r)
         /\ BearerToken(r).exp # None
         /\ Val(BearerToken(r).exp) < audit[r].now1) =>
            /\ Is401(r)
            /\ Val(response[r]).detail = "Token has expired"

HexDigits ==
    {"0", "1", "2", "3", "4", "5", "6", "7", "8", "9", "a", "b", "c", "d", "e", "f"}

NoTraceHeaders(r) ==
    LET h == request[r].headers
    IN  /\ h.traceparent = None /\ h.x_trace_id = None
        /\ h.x_request_id = None /\ h.x_correlation_id = None

\* C3: for a request with none of the four trace headers the generated
\* identifier is exactly 32 lowercase hexadecimal characters, and the
\* response's X-Trace-ID and X-Request-ID both equal it.
C3_Generated32Hex ==
    \A r \in Requests :
        (pc[r] # "new" /\ NoTraceHeaders(r)) =>
            LET id == Val(state[r].trace_id)
            IN  /\ Len(id) = 32
                /\ \A i \in 1..Len(id) : id[i] \in HexDigits
                /\ pc[r] = "done" =>
                       /\ Val(response[r]).headers.x_trace_id = Some(id)
                       /\ Val(response[r]).headers.x_request_id = Some(id)

\* The identifiers the stage can generate.
FreshIds == {GenerateTraceId(d1, d2) : d1 \in UuidDigits, d2 \in UuidDigits}

\* The second hyphen-delimited field of s, by position: what lies between the
\* first hyphen and the next one (or the end).
Hyphens(s) == {i \in 1..Len(s) : s[i] = "-"}
Least(S) == CHOOSE i \in S : \A j \in S : i <= j
SecondField(s) ==
    LET first == Least(Hyphens(s))
        later == {i \in Hyphens(s) : i > first}
        stop == IF later = {} THEN Len(s) + 1 ELSE Least(later)
    IN  SubSeq(s, first + 1, stop - 1)

NonEmpty(o) == o # None /\ o # Some(<< >>)

\* The first non-empty of X-Trace-ID, X-Request-ID, X-Correlation-ID.
CustomHeader(h) ==
    IF NonEmpty(h.x_trace_id) THEN h.x_trace_id
    ELSE IF NonEmpty(h.x_request_id) THEN h.x_request_id
    ELSE IF NonEmpty(h.x_correlation_id) THEN h.x_correlation_id
    ELSE None

\* C4 as claimed: the second field of a traceparent of at least 4 fields;
\* otherwise, also when traceparent does not parse, the first non-empty
\* custom header; otherwise a generated identifier.
C4_ClaimedPrecedence ==
    \A r \in Requests :
        pc[r] # "new" =>
            LET h == request[r].headers
                id == Val(state[r].trace_id)
            IN  IF NonEmpty(h.traceparent)
                   /\ Cardinality(Hyphens(Val(h.traceparent))) >= 3
                THEN id = SecondField(Val(h.traceparent))
                ELSE IF CustomHeader(h) # None THEN id = Val(CustomHeader(h))
                ELSE id \in FreshIds

\* C4 as amended: a non-empty traceparent decides alone: its second field
\* when it has a hyphen and that field is not empty (four fields are not
\* required), and otherwise a generated identifier, the custom headers not
\* being consulted; the custom headers are consulted, in order, only when
\* traceparent is absent or empty; otherwise a generated identifier.
C4_Precedence ==
    \A r \in Requests :
        pc[r] # "new" =>
            LET h == request[r].headers
                id == Val(state[r].trace_id)
            IN  IF NonEmpty(h.traceparent)
                THEN IF /\ Hyphens(Val(h.traceparent)) # {}
                        /\ SecondField(Val(h.traceparent)) # << >>
                     THEN id = SecondField(Val(h.traceparent))
                     ELSE id \in FreshIds
                ELSE IF CustomHeader(h) # None THEN id = Val(CustomHeader(h))
                ELSE id \in FreshIds

\* A traceparent without a hyphen arrived beside an X-Trace-ID, and the
\* response carries a generated identifier.
C4_Witness ==
    \E r \in Requests :
        /\ pc[r] = "done"
        /\ request[r].headers.traceparent = Some(<<"a">>)
        /\ request[r].headers.x_trace_id = Some(<<"t">>)
        /\ Val(state[r].trace_id) \in FreshIds
        /\ Val(response[r]).headers.x_trace_id = state[r].trace_id

\* C5: the function executed on a worker reads from trace_id_var the trace
\* id the submitting request's correlation stage set: never the default and
\* never another request's, whichever work the thread ran before.
C5_WorkerSeesOwnTrace ==
    /\ \A r \in Requests :
           seen[r] # None =>
               /\ Val(seen[r]) # trace_id_var_default
               /\ Val(seen[r]) = state[r].trace_id
    /\ \A w \in Workers :
           worker[w] # None => thread_ctx[w] = state[Val(worker[w]).req].trace_id

\* Two requests with different trace ids both had their offloaded call run.
C5_Witness ==
    \E r1 \in Requests, r2 \in Requests :
        /\ seen[r1] # None /\ seen[r2] # None
        /\ state[r1].trace_id # state[r2].trace_id
        /\ Val(seen[r1]) = state[r1].trace_id
        /\ Val(seen[r2]) = state[r2].trace_id

\* C6: when the handler runs and when the response is returned,
\* request.state.user holds the decoded claims if and only if the stage
\* required a token (path not exempt, secret configured) and the token was
\* verified and unexpired.
C6_PrincipalIffVerified ==
    \A r \in Requests :
        pc[r] \in {"handler", "awaiting", "resumable", "returning", "done"} =>
            /\ state[r].user # None <=>
                   (Protected(r) /\ SecretConfigured(r) /\ ValidCredential(r))
            /\ state[r].user # None => state[r].user = Some(Payload(BearerToken(r)))

\* A verified request with an exp claim ahead of the clock was answered 200
\* with its claims attached.
C6_Witness ==
    \E r \in Requests :
        /\ pc[r] = "done" /\ Protected(r) /\ SecretConfigured(r)
        /\ HandlerInvoked(r)
        /\ state[r].user # None
        /\ Val(state[r].user).exp # None
        /\ Val(response[r]).status_code = 200

\* C7: whatever the Authorization header and the token, the authentication
\* decision ends in a returned response (a 401 or the forwarded one): no
\* exception leaves security_middleware.
C7_NoExceptionEscapes ==
    \A r \in Requests :
        Decided(r) => (audit[r].outcome \in {"forward", "reject"} /\ pc[r] # "raised")

IsPrefix(s, t) == Len(s) <= Len(t) /\ SubSeq(t, 1, Len(s)) = s

\* C8: within a request the correlation stage publishes the trace id, then
\* the security stage decides, then (if forwarded) the handler runs, and
\* only after the downstream stage returned are the response headers set;
\* every response that comes back through the correlation stage, a 401
\* included, carries X-Trace-ID and X-Request-ID equal to the trace id
\* resolved at ingress.
C8_OrderAndHeaders ==
    \A r \in Requests :
        /\ \/ IsPrefix(trail[r], <<"correlation", "security", "handler",
                                   "handler_returned", "headers">>)
           \/ IsPrefix(trail[r], <<"correlation", "security", "headers">>)
        /\ HasEvent(r, "security") => task_ctx[r] = state[r].trace_id /\ task_ctx[r] # None
        /\ (response[r] # None /\ ~HasEvent(r, "headers")) =>
               Val(response[r]).headers = NoResponseHeaders
        /\ pc[r] = "done" =>
               /\ response[r] # None
               /\ state[r].trace_id # None
               /\ Val(response[r]).headers.x_trace_id = state[r].trace_id
               /\ Val(response[r]).headers.x_request_id = state[r].trace_id

\* A 401 short-circuit came back carrying the trace id of its request.
C8_Witness ==
    \E r \in Requests :
        /\ pc[r] = "done" /\ Is401(r)
        /\ trail[r] = <<"correlation", "security", "headers">>
        /\ Val(response[r]).headers.x_trace_id = state[r].trace_id
        /\ Val(response[r]).headers.x_request_id = state[r].trace_id

\* C9: a request whose path is exactly /docs, /openapi.json or /health is
\* forwarded without the secret or the Authorization header being read,
\* whatever the header holds and whether or not a secret is configured; it
\* is never answered 401.
C9_ExemptAlwaysForwarded ==
    \A r \in Requests :
        (Decided(r) /\ request[r].path \in {"/docs", "/openapi.json", "/health"}) =>
            /\ audit[r].outcome = "forward"
            /\ ~audit[r].read_secret
            /\ ~audit[r].read_auth
            /\ ~Is401(r)

\* /health was asked with a token signed by another secret while a secret
\* was configured, and was answered 200.
C9_Witness ==
    \E r \in Requests :
        /\ pc[r] = "done" /\ request[r].path = "/health"
        /\ SecretConfigured(r)
        /\ BearerForm(r) /\ ~Verifies(r)
        /\ Val(response[r]).status_code = 200

\* C10: a request processed while JWT_SECRET is unset or empty is forwarded
\* whatever its Authorization header and never answered 401; the secret is
\* read per request, so the decision follows the environment at that time
\* (a protected request without a header is answered 401 when a secret is
\* then configured).
C10_FailOpenPerRequest ==
    \A r \in Requests :
        Decided(r) =>
            /\ ~SecretConfigured(r) => (audit[r].outcome = "forward" /\ ~Is401(r))
            /\ (SecretConfigured(r) /\ Protected(r)
                /\ request[r].headers.authorization = None) => Is401(r)

\* The process started with a secret, the secret was removed, and a
\* protected request without a header was then answered 200.
C10_Witness ==
    \E r \in Requests :
        /\ pc[r] = "done" /\ Protected(r)
        /\ startup_secret = Some(S1)
        /\ ~SecretConfigured(r)
        /\ request[r].headers.authorization = None
        /\ Val(response[r]).status_code = 200

====
